---- MODULE Spec2Model ----
(***************************************************************************)
(* Model of the cluster registry of samundra/lens:                         *)
(*   ClusterStore (src/src/common/utils/index.ts) and the Cluster entities *)
(*   it holds.  The registry maps are insertion-ordered JavaScript Maps,   *)
(*   modelled as sequences of [key, value] entries; Cluster objects live   *)
(*   in a heap and are referred to by reference, so that "the same entity" *)
(*   is the same reference.                                                *)
(***************************************************************************)
EXTENDS Integers, Sequences, FiniteSets, TLC

\* ------------------------------------------------------------------ bounds
MaxGen == 2         \* Cluster objects of one identifier alive at the same time
MaxPending == 1     \* unlink calls in flight for one path
MaxChannel == 2     \* "cluster:state" messages in flight to one window
MaxWindows == 2     \* main BrowserWindow objects made in one run
MaxCalls == 2       \* calls of ensureMainWindow in one run
MaxIdLen == 3       \* characters of the identifier in a cluster frame's URL

\* ------------------------------------------------------------- value sets
Ids == {"c1", "c2"}
PastedIds == {"c1"}     \* identifiers whose kubeconfig may be pasted as text
ConnIds == {"c1"}       \* identifiers of the clusters the user opens
ExtensionIds == {"c1"}  \* identifiers an extension may own, or with a broken context
IdOrder(i) == IF i = "c1" THEN 1 ELSE 2
Null == "null"

\* A reference to a Cluster object: the identifier it was constructed with and
\* a number telling apart the objects of that identifier that are alive.
Refs == Ids \X (1..MaxGen)
NoRef == <<Null, 0>>

\* A kubeconfig the user references on the filesystem (never owned).
ExternalPath == <<"home", "kubeconfig">>

\* path.resolve(userData, "kubeconfigs", clusterId)
getCustomKubeConfigPath(clusterId) == <<"kubeconfigs", clusterId>>

\* interface ClusterModel (the persisted attributes the registry reads):
\* a kubeconfig file picked on disk, a kubeconfig pasted as text, a kubeconfig
\* whose context is empty ("" : no API URL resolves), an extension-owned one.
FileModel(i) ==
    [id |-> i, kubeConfigPath |-> ExternalPath, contextName |-> "ctx",
     ownerRef |-> Null]

PastedModel(i) ==
    [id |-> i, kubeConfigPath |-> getCustomKubeConfigPath(i),
     contextName |-> "ctx", ownerRef |-> Null]

InvalidModel(i) ==
    [id |-> i, kubeConfigPath |-> ExternalPath, contextName |-> "",
     ownerRef |-> Null]

ManagedModel(i) ==
    [id |-> i, kubeConfigPath |-> ExternalPath, contextName |-> "ctx",
     ownerRef |-> "ext"]

FileModels == { FileModel(i) : i \in Ids }

\* the models the registry specification Spec draws from
ClusterModels ==
    FileModels \cup { InvalidModel(i) : i \in ExtensionIds }
    \cup { ManagedModel(i) : i \in ExtensionIds }

\* the models the kubeconfig-file specification SpecFiles draws from
FsModels == FileModels \cup { PastedModel(i) : i \in PastedIds }

VARIABLES
    heap,             \* reference -> Cluster object (the objects alive)
    clusters,         \* ClusterStore.clusters : Map<ClusterId, Cluster>
    removedClusters,  \* ClusterStore.removedClusters : Map<ClusterId, Cluster>
    activeCluster,    \* ClusterStore.activeCluster
    files,            \* paths present on disk
    pendingUnlink,    \* path -> number of unlink() calls issued, not finished
    emitted,          \* appEventBus events emitted by the last step
    lastOp,           \* the handler step taken last, with its arguments
    ipcMain,          \* the store runs in the main (primary) process
    broadcast,        \* "cluster:state" messages broadcast by the last step
    removedIds,       \* history of the broadcasting store: the identifiers
                      \* removeById has removed and nothing has added since
    listening,        \* the window has subscribed to "cluster:state"
    channel,          \* "cluster:state" messages in flight to the window
    response,         \* the "cluster:states" answer in flight to the window
    view,             \* the window's registry: ClusterId -> ClusterState
    viewLatest        \* history: the identifiers whose state in the window
                      \* was taken from the newest state the main process made

\* the state of the ClusterStore, its files and its window
storeVars == <<heap, clusters, removedClusters, activeCluster, files,
               pendingUnlink, emitted, lastOp, ipcMain, broadcast, removedIds,
               listening, channel, response, view, viewLatest>>

VARIABLES
    mainWindow,       \* WindowManager.mainWindow : a BrowserWindow or Null
    splashWindow,     \* WindowManager.splashWindow : a BrowserWindow or Null
    disposers,        \* WindowManager.disposers : the names it holds
    activeClusterId,  \* WindowManager.activeClusterId
    browserWindows,   \* the main BrowserWindow objects made so far
    calls,            \* the calls of ensureMainWindow and where each one is
    clusterFrameMap,  \* clusterFrameMap : the identifiers with a frame
    disposed,         \* history: how often each disposer was invoked
    wmOp              \* history: the WindowManager step taken last

\* the state of the WindowManager and of the windows it manages
windowVars == <<mainWindow, splashWindow, disposers, activeClusterId,
                browserWindows, calls, clusterFrameMap, disposed, wmOp>>

VARIABLES
    host,             \* location.host of the page, a string of characters
    frameClusterId,   \* history: the identifier the page's URL was made for
    hostedClusterId   \* what getHostedClusterId() returns in the page

\* the page a renderer shows
pageVars == <<host, frameClusterId, hostedClusterId>>

vars == <<storeVars, windowVars, pageVars>>

\* ------------------------------------------------- observable.map (JS Map)
MapKeys(m) == { m[i].key : i \in 1..Len(m) }

MapValues(m) == { m[i].value : i \in 1..Len(m) }

MapHas(m, k) == \E i \in 1..Len(m) : m[i].key = k

MapIndex(m, k) == CHOOSE i \in 1..Len(m) : m[i].key = k

\* Map.get : the value, or NoRef for undefined
MapGet(m, k) == IF MapHas(m, k) THEN m[MapIndex(m, k)].value ELSE NoRef

\* mutant of MapSet: always appends a new entry
MapSetAppend(m, k, v) == Append(m, [key |-> k, value |-> v])

\* Map.set : replaces the value of an existing key in place, else appends
MapSet(m, k, v) ==
    IF MapHas(m, k)
    THEN [m EXCEPT ![MapIndex(m, k)] = [key |-> k, value |-> v]]
    ELSE Append(m, [key |-> k, value |-> v])

\* Map.delete
MapDelete(m, k) == SelectSeq(m, LAMBDA e : e.key # k)

EmptyMap == <<>>

\* ------------------------------------------------------------ Cluster
\* cluster is managed by an extension when it has an ownerRef
isManaged(c) == c.ownerRef # Null

\* the API URL the constructor resolves from the kubeconfig context
resolveApiUrl(model) == IF model.contextName = "" THEN Null ELSE "https://api"

\* new Cluster(model)
Cluster(model) ==
    [id |-> model.id,
     kubeConfigPath |-> model.kubeConfigPath,
     contextName |-> model.contextName,
     ownerRef |-> model.ownerRef,
     apiUrl |-> resolveApiUrl(model),
     enabled |-> FALSE,
     state |-> "disconnected",
     accessible |-> FALSE,
     proxy |-> FALSE]

\* Cluster.updateModel(model) : Object.assign of the persisted attributes
updateModel(c, model) ==
    [c EXCEPT !.kubeConfigPath = model.kubeConfigPath,
              !.contextName = model.contextName,
              !.ownerRef = model.ownerRef]

\* Cluster.toJSON()
toModel(c) ==
    [id |-> c.id, kubeConfigPath |-> c.kubeConfigPath,
     contextName |-> c.contextName, ownerRef |-> c.ownerRef]

\* ------------------------------------------------------------ heap
\* Objects nobody can reach any more are dropped: an object stays alive while
\* a registry map holds it or while it still has a connection open.
Live(h, cs, rs) ==
    { r \in DOMAIN h :
        \/ r \in MapValues(cs)
        \/ r \in MapValues(rs)
        \/ h[r].state # "disconnected" }

Collect(h, cs, rs) == [r \in Live(h, cs, rs) |-> h[r]]

\* The numbers a new object of identifier id may take: those no object alive
\* after the step holds (cs, rs are the registry maps after the step).
FreeGens(h, cs, rs, id) ==
    LET live == Live(h, cs, rs)
    IN { g \in 1..MaxGen : <<id, g>> \notin live }

NewRef(h, cs, rs, id) ==
    LET free == FreeGens(h, cs, rs, id)
    IN <<id, CHOOSE g \in free : \A q \in free : g <= q>>

\* ------------------------------------------------------------ history
\* op, id : the handler and the identifier it was called with
\* ref : the Cluster instance passed in or looked up;  made : the references
\* of the objects the step constructed;  found : the lookup succeeded
\* ids : the identifiers of a snapshot's records, in their order
\* done : the call has returned;  afterAdd : the call directly follows
\* addCluster of the same identifier
Op(name, id) ==
    [op |-> name, id |-> id, ids |-> <<>>, ref |-> NoRef, made |-> {},
     found |-> FALSE, done |-> TRUE, afterAdd |-> FALSE]

NoEvents == <<>>

\* no "cluster:states" answer is in flight
NoResponse == <<>>

Event(name, action) == [name |-> name, action |-> action]

\* ------------------------------------------------------------ WindowManager values
\* no BrowserWindow (null, undefined); the windows made are numbered from 1
NoWindow == 0

\* the disposers the constructor registers (initMenu, initTray)
DisposerNames == {"menuAutoUpdater", "trayAutoUpdater"}

\* a main BrowserWindow object: made with show: false; load is what became
\* of loadURL(mainUrl); reported is set once the LOADED message of the
\* window's renderer has been received
NewBrowserWindow ==
    [alive |-> TRUE, shown |-> FALSE, load |-> "idle", reported |-> FALSE]

\* the splash BrowserWindow showSplash() makes
Splash == "splash"

\* a call of ensureMainWindow: where it is (pc), whether it made a LOADED
\* listener of its own (own) and whether that listener has fired (heard),
\* the window whose loadURL it awaits (win), the frame navigate() was given
\* (nav, frame) and what the call returned (result)
NoCall ==
    [pc |-> "idle", own |-> FALSE, heard |-> FALSE, win |-> NoWindow,
     nav |-> FALSE, frame |-> Null, result |-> NoWindow]

\* the channels of IpcRendererNavigationEvents the WindowManager sends on
RELOAD_PAGE == "renderer:reload"
NAVIGATE_IN_APP == "renderer:navigate"
NAVIGATE_IN_CLUSTER == "renderer:navigate-in-cluster"

\* the history record of a WindowManager step: the messages it sent (sent),
\* the web contents it reloaded (reloaded), whether it threw (threw)
WmOp(name) ==
    [op |-> name, sent |-> {}, reloaded |-> Null, threw |-> FALSE]

\* ------------------------------------------------------------ hosts
\* the characters identifiers are made of here: a letter, a digit and the
\* two separators of a host
Chars == {"a", "7", ".", ":"}

\* undefined, as a value no string of characters is equal to
Undefined == <<"undefined">>

Localhost == <<"l", "o", "c", "a", "l", "h", "o", "s", "t">>

\* the ports the application is served on
Ports == {<<"8", "0">>, <<"4", "5", "3", "4", "5">>}

\* ------------------------------------------------------------ Init
\* the state after construction, in a process of the given role
constructed(main) ==
    /\ heap = [r \in {} |-> Null]
    /\ clusters = EmptyMap
    /\ removedClusters = EmptyMap
    /\ activeCluster = Null
    /\ files = {ExternalPath}
    /\ pendingUnlink = [i \in PastedIds |-> 0]
    /\ emitted = NoEvents
    /\ lastOp = Op("init", Null)
    /\ ipcMain = main
    /\ broadcast = <<>>
    /\ removedIds = {}
    /\ listening = FALSE
    /\ channel = <<>>
    /\ response = NoResponse
    /\ view = [i \in {} |-> Null]
    /\ viewLatest = {}
    /\ mainWindow = NoWindow
    /\ splashWindow = Null
    /\ disposers = DisposerNames
    /\ activeClusterId = Null
    /\ browserWindows = <<>>
    /\ calls = [c \in 1..MaxCalls |-> NoCall]
    /\ clusterFrameMap = {}
    /\ disposed = [name \in DisposerNames |-> 0]
    /\ wmOp = WmOp("init")
    /\ host = <<>>
    /\ frameClusterId = Undefined
    /\ hostedClusterId = Undefined

\* a store on which the state reactions are not installed (ipcMain is not set)
Init == constructed(FALSE)

\* the store of the main process
InitMain == constructed(TRUE)

\* ------------------------------------------------------------ state sync
\* Cluster.getState() : the connection state snapshot sent to the windows
getState(c) == [state |-> c.state, accessible |-> c.accessible]

\* get clustersList : Array.from(this.clusters.values())
clustersList(cs) == [i \in DOMAIN cs |-> cs[i].value]

\* get enabledClustersList
enabledClustersList(cs, h) ==
    SelectSeq(clustersList(cs), LAMBDA r : h[r].enabled)

\* get connectedClustersList
connectedClustersList(cs, h) ==
    SelectSeq(clustersList(cs), LAMBDA r : h[r].state # "disconnected")

\* mutant of pushedStates: every Cluster object alive broadcasts its state
pushedStatesOfAll(cs, h) ==
    LET everyone == { [id |-> h[r].id, state |-> getState(h[r])] :
                        r \in DOMAIN h }
        Enum[S \in SUBSET everyone] ==
            IF S = {} THEN <<>>
            ELSE LET m == CHOOSE x \in S : TRUE
                 IN <<m>> \o Enum[S \ {m}]
    IN Enum[everyone]

\* pushState() : every cluster of the registry broadcasts { id, getState() }
pushedStates(cs, h) ==
    [i \in DOMAIN cs |->
        [id |-> h[cs[i].value].id, state |-> getState(h[cs[i].value])]]

\* what the reaction on enabledClustersList observes: the registry's values
\* and the enabled flag of each
enabledObserved(cs, h) ==
    [i \in DOMAIN cs |-> <<cs[i].value, h[cs[i].value].enabled>>]

\* mutant of connectedObserved: the disconnected flag is not observed
connectedNotObserved(cs, h) ==
    [i \in DOMAIN cs |-> <<cs[i].value, TRUE>>]

\* what the reaction on connectedClustersList observes: the registry's values
\* and the disconnected flag of each
connectedObserved(cs, h) ==
    [i \in DOMAIN cs |-> <<cs[i].value, h[cs[i].value].state = "disconnected">>]

\* a computed list is made anew, and its reaction runs, when something it
\* observes has changed (made : the objects the step constructed)
recomputed(before, after, made) ==
    \/ before # after
    \/ \E i \in DOMAIN after : after[i][1] \in made

\* pushStateToViewsAutomatically : the messages the two reactions broadcast
\* at the end of a step from registry cs, h to registry cs2, h2
reactions(cs, h, cs2, h2, made) ==
    (IF recomputed(enabledObserved(cs, h), enabledObserved(cs2, h2), made)
     THEN pushedStates(cs2, h2) ELSE <<>>)
    \o
    (IF recomputed(connectedObserved(cs, h), connectedObserved(cs2, h2), made)
     THEN pushedStates(cs2, h2) ELSE <<>>)

\* the connection state the registry holds for id ({} : no such cluster)
registryState(cs, h, id) ==
    IF MapHas(cs, id) THEN {getState(h[MapGet(cs, id)])} ELSE {}

\* history kept with a message in flight: latest tells that the main process
\* has made no newer state of the cluster since the message was sent
inFlight(msgs) ==
    [i \in DOMAIN msgs |->
        [id |-> msgs[i].id, state |-> msgs[i].state, latest |-> TRUE]]

outdated(msgs, changed) ==
    [i \in DOMAIN msgs |->
        [msgs[i] EXCEPT !.latest = @ /\ msgs[i].id \notin changed]]

\* the part of a step of the store that reaches the windows: the reactions'
\* broadcasts are queued for the window if it listens
broadcasting(sent, cs2, h2) ==
    LET changed == { id \in Ids : registryState(clusters, heap, id)
                                    # registryState(cs2, h2, id) }
    IN /\ listening => Len(channel) + Len(sent) <= MaxChannel
       /\ broadcast' = sent
       /\ channel' = outdated(channel, changed)
                        \o (IF listening THEN inFlight(sent) ELSE <<>>)
       /\ response' = [i \in DOMAIN response |->
                          outdated(response[i], changed)]
       /\ viewLatest' = { id \in viewLatest : id \notin changed }
       /\ UNCHANGED <<ipcMain, listening, view>>

\* a step of the store that changes the registry from clusters, heap to
\* cs2, h2: if (ipcMain) the reactions run
pushStateToViewsAutomatically(cs2, h2, made) ==
    broadcasting(IF ipcMain
                 THEN reactions(clusters, heap, cs2, h2, made)
                 ELSE <<>>,
                 cs2, h2)

\* a step of the store that leaves the registry and its clusters as they are
noReaction ==
    /\ broadcast' = <<>>
    /\ UNCHANGED <<ipcMain, removedIds, listening, channel, response, view,
                   viewLatest>>

\* history: the identifiers removed and not added since
recordRemoved(added, removed) ==
    removedIds' = IF ipcMain
                  THEN (removedIds \ added) \cup removed
                  ELSE removedIds

\* ------------------------------------------------------------ ClusterStore
\* getById(id) : the Cluster, or NoRef for null
getById(cs, id) == MapGet(cs, id)

\* mutant of setActiveTarget: the enabled check is left out
setActiveUnchecked(cs, h, clusterId) == clusterId

\* the identifier setActive stores
setActiveTarget(cs, h, clusterId) ==
    IF MapHas(cs, clusterId) /\ h[MapGet(cs, clusterId)].enabled
    THEN clusterId
    ELSE Null

setActive(clusterId) ==
    /\ activeCluster' = setActiveTarget(clusters, heap, clusterId)
    /\ emitted' = NoEvents
    /\ UNCHANGED <<windowVars, pageVars>>
    /\ lastOp' = Op("setActive", clusterId)
    /\ noReaction
    /\ UNCHANGED <<heap, clusters, removedClusters, files, pendingUnlink>>

isActive(id) == activeCluster = id

deactivate(id) ==
    /\ activeCluster' = IF isActive(id)
                        THEN setActiveTarget(clusters, heap, Null)
                        ELSE activeCluster
    /\ emitted' = NoEvents
    /\ UNCHANGED <<windowVars, pageVars>>
    /\ lastOp' = Op("deactivate", id)
    /\ noReaction
    /\ UNCHANGED <<heap, clusters, removedClusters, files, pendingUnlink>>

\* static embedCustomKubeConfig(clusterId, kubeConfig) : saveToAppFiles
embedCustomKubeConfig(clusterId) ==
    /\ files' = files \cup {getCustomKubeConfigPath(clusterId)}
    /\ emitted' = NoEvents
    /\ UNCHANGED <<windowVars, pageVars>>
    /\ lastOp' = Op("embedCustomKubeConfig", clusterId)
    /\ noReaction
    /\ UNCHANGED <<heap, clusters, removedClusters, activeCluster,
                   pendingUnlink>>

\* appEventBus.emit({ name: "cluster", action: "add" })
emitAdd == <<Event("cluster", "add")>>

\* mutant of emitRemove: the event is not emitted
emitNothing == NoEvents

\* appEventBus.emit({ name: "cluster", action: "remove" })
emitRemove == <<Event("cluster", "remove")>>

\* mutant of enableUnlessManaged: every added cluster is enabled
enableAlways(c) == [c EXCEPT !.enabled = TRUE]

\* if (!cluster.isManaged) cluster.enabled = true
enableUnlessManaged(c) ==
    IF ~isManaged(c) THEN [c EXCEPT !.enabled = TRUE] ELSE c

\* addCluster(model) with a plain ClusterModel: a new Cluster is constructed
addCluster(model) ==
    LET kept == MapDelete(clusters, model.id)
    IN /\ FreeGens(heap, kept, removedClusters, model.id) # {}
       /\ LET r == NewRef(heap, kept, removedClusters, model.id)
              cs == MapSet(clusters, model.id, r)
              h == [q \in DOMAIN heap \ {r} |-> heap[q]]
                     @@ (r :> enableUnlessManaged(Cluster(model)))
          IN /\ clusters' = cs
             /\ heap' = Collect(h, cs, removedClusters)
             /\ pushStateToViewsAutomatically(cs, h, {r})
             /\ lastOp' = [Op("addCluster", model.id) EXCEPT
                              !.made = {r},
                              !.found = MapHas(clusters, model.id),
                              !.afterAdd = (lastOp.op = "addCluster"
                                            /\ lastOp.id = model.id)]
       /\ emitted' = emitAdd
       /\ UNCHANGED <<windowVars, pageVars>>
    /\ recordRemoved({model.id}, {})
    /\ UNCHANGED <<removedClusters, activeCluster, files, pendingUnlink>>

\* addCluster(cluster) with a Cluster instance: the instance itself is stored
addClusterInstance(r) ==
    /\ r \in DOMAIN heap
    /\ LET cs == MapSet(clusters, heap[r].id, r)
           h == [heap EXCEPT ![r] = enableUnlessManaged(heap[r])]
       IN /\ clusters' = cs
          /\ heap' = Collect(h, cs, removedClusters)
          /\ pushStateToViewsAutomatically(cs, h, {})
    /\ recordRemoved({heap[r].id}, {})
    /\ emitted' = emitAdd
    /\ UNCHANGED <<windowVars, pageVars>>
    /\ lastOp' = [Op("addCluster", heap[r].id) EXCEPT
                     !.ref = r,
                     !.found = MapHas(clusters, heap[r].id),
                     !.afterAdd = (lastOp.op = "addCluster"
                                   /\ lastOp.id = heap[r].id)]
    /\ UNCHANGED <<removedClusters, activeCluster, files, pendingUnlink>>

\* mutant of activeAfterRemove: the active identifier is left alone
activeAfterRemoveKept(cs, h, active, clusterId) == active

\* if (this.activeCluster === clusterId) this.setActive(null)
activeAfterRemove(cs, h, active, clusterId) ==
    IF active = clusterId THEN setActiveTarget(cs, h, Null) ELSE active

\* mutant of ownsCustomKubeConfig: no kubeconfig counts as a private copy
ownsNothing(c, clusterId) == FALSE

\* mutant of ownsCustomKubeConfig: whatever kubeconfig a cluster of an
\* identifier with a private path names counts as its private copy
ownsWhateverItNames(c, clusterId) == clusterId \in PastedIds

\* cluster.kubeConfigPath == ClusterStore.getCustomKubeConfigPath(clusterId)
ownsCustomKubeConfig(c, clusterId) ==
    c.kubeConfigPath = getCustomKubeConfigPath(clusterId)

\* removeById(clusterId), up to the point where it awaits unlink()
removeById(clusterId) ==
    LET r == getById(clusters, clusterId)
        after == lastOp.op = "addCluster" /\ lastOp.id = clusterId
    IN /\ emitted' = emitRemove
       /\ UNCHANGED <<windowVars, pageVars>>
       /\ IF r # NoRef
          THEN LET cs == MapDelete(clusters, clusterId)
                   unlinks == ownsCustomKubeConfig(heap[r], clusterId)
               IN /\ unlinks => pendingUnlink[clusterId] < MaxPending
                  /\ clusters' = cs
                  /\ activeCluster' =
                         activeAfterRemove(cs, heap, activeCluster, clusterId)
                  /\ pendingUnlink' =
                         IF unlinks
                         THEN [pendingUnlink EXCEPT ![clusterId] = @ + 1]
                         ELSE pendingUnlink
                  /\ heap' = Collect(heap, cs, removedClusters)
                  /\ pushStateToViewsAutomatically(cs, heap, {})
                  /\ recordRemoved({}, {clusterId})
                  /\ lastOp' = [Op("removeById", clusterId) EXCEPT
                                   !.ref = r, !.found = TRUE,
                                   !.done = ~unlinks, !.afterAdd = after]
          ELSE /\ lastOp' = Op("removeById", clusterId)
               /\ noReaction
               /\ UNCHANGED <<heap, clusters, activeCluster, pendingUnlink>>
       /\ UNCHANGED <<removedClusters, files>>

\* mutant of unlinkCaught: a failed deletion rejects removeById
unlinkRethrown(failed) == ~failed

\* .catch(noop) : whether the deletion failed or not, the awaited promise
\* is fulfilled and removeById runs to its end
unlinkCaught(failed) == TRUE

\* await unlink(cluster.kubeConfigPath).catch(noop) : the file system carries
\* the deletion out; it fails (ENOENT) when the file is not there, and the
\* failure is swallowed.  removeById returns after it.
unlinkDone(clusterId) ==
    /\ pendingUnlink[clusterId] > 0
    /\ pendingUnlink' = [pendingUnlink EXCEPT ![clusterId] = @ - 1]
    /\ files' = files \ {getCustomKubeConfigPath(clusterId)}
    /\ emitted' = NoEvents
    /\ UNCHANGED <<windowVars, pageVars>>
    /\ lastOp' = [Op("unlink", clusterId) EXCEPT
                     !.found = getCustomKubeConfigPath(clusterId) \in files,
                     !.done = unlinkCaught(
                                 getCustomKubeConfigPath(clusterId)
                                    \notin files),
                     !.afterAdd = (lastOp.op = "removeById"
                                   /\ lastOp.id = clusterId
                                   /\ ~lastOp.done /\ lastOp.afterAdd)]
    /\ noReaction
    /\ UNCHANGED <<heap, clusters, removedClusters, activeCluster>>

\* the persisted snapshots fromStore is given: records drawn from models,
\* with distinct ids, in the order of IdOrder
SnapshotsOf(models) ==
    { s \in UNION { [1..n -> models] : n \in 0..Cardinality(Ids) } :
        \A i, j \in DOMAIN s : i < j => IdOrder(s[i].id) < IdOrder(s[j].id) }

SnapshotClusters == SnapshotsOf(ClusterModels)

FsSnapshotClusters == SnapshotsOf(FsModels)

FileSnapshotClusters == SnapshotsOf(FileModels)

\* mutant of enableLoaded: a loaded cluster is enabled without an API URL
enableLoadedUnchecked(c) ==
    IF ~isManaged(c) THEN [c EXCEPT !.enabled = TRUE] ELSE c

\* if (!cluster.isManaged && cluster.apiUrl) cluster.enabled = true
enableLoaded(c) ==
    IF ~isManaged(c) /\ c.apiUrl # Null THEN [c EXCEPT !.enabled = TRUE] ELSE c

\* "update new clusters", one record of the snapshot: the reference the loop
\* stores under model.id (the current cluster, or a new one)
loadedRef(model) ==
    IF MapHas(clusters, model.id)
    THEN MapGet(clusters, model.id)
    ELSE NewRef(heap, EmptyMap, EmptyMap, model.id)

\* mutant of loadedCluster: a cluster is constructed for every record
loadedClusterAnew(model) == enableLoaded(Cluster(model))

\* ... and the object behind it after the loop body
loadedCluster(model) ==
    IF MapHas(clusters, model.id)
    THEN updateModel(heap[MapGet(clusters, model.id)], model)
    ELSE enableLoaded(Cluster(model))

\* newClusters after the loop (the records have distinct ids)
newClustersOf(models) ==
    [i \in DOMAIN models |->
        [key |-> models[i].id, value |-> loadedRef(models[i])]]

\* the heap after the loop
heapAfterLoad(models) ==
    LET loaded == { <<loadedRef(models[i]), loadedCluster(models[i])>> :
                      i \in DOMAIN models }
        touched == { e[1] : e \in loaded }
    IN [r \in DOMAIN heap \cup touched |->
          IF r \in touched
          THEN (CHOOSE e \in loaded : e[1] = r)[2]
          ELSE heap[r]]

\* mutant of updateRemovedClusters: the clusters left out are dropped
updateRemovedNone(current, newClusters) == EmptyMap

\* "update removed clusters": the current clusters newClusters does not hold
updateRemovedClusters(current, newClusters) ==
    SelectSeq(current, LAMBDA e : ~MapHas(newClusters, e.key))

\* mutant of activeFromStore: the snapshot's active identifier is taken as is
activeFromStoreUnchecked(newClusters, h, active) == active

\* newClusters.get(activeCluster)?.enabled ? activeCluster : null
activeFromStore(newClusters, h, active) ==
    IF MapHas(newClusters, active) /\ h[MapGet(newClusters, active)].enabled
    THEN active
    ELSE Null

SeqIds(models) == [i \in DOMAIN models |-> models[i].id]

fromStore(active, models) ==
    /\ \A i \in DOMAIN models :
          ~MapHas(clusters, models[i].id)
             => FreeGens(heap, EmptyMap, EmptyMap, models[i].id) # {}
    /\ LET newClusters == newClustersOf(models)
           h == heapAfterLoad(models)
           removed == updateRemovedClusters(clusters, newClusters)
       IN /\ activeCluster' = activeFromStore(newClusters, h, active)
          /\ clusters' = newClusters
          /\ removedClusters' = removed
          /\ heap' = Collect(h, newClusters, removed)
          /\ pushStateToViewsAutomatically(
                 newClusters, h,
                 { loadedRef(models[i]) : i \in
                     { j \in DOMAIN models :
                         ~MapHas(clusters, models[j].id) } })
          /\ recordRemoved({ models[i].id : i \in DOMAIN models }, {})
          /\ lastOp' = [Op("fromStore", active) EXCEPT
                           !.ids = SeqIds(models),
                           !.made = { loadedRef(models[i]) : i \in
                                        { j \in DOMAIN models :
                                            ~MapHas(clusters, models[j].id) } }]
    /\ emitted' = NoEvents
    /\ UNCHANGED <<windowVars, pageVars>>
    /\ UNCHANGED <<files, pendingUnlink>>

\* the identifiers of the enabled clusters of the registry cs over heap h
EnabledIds(cs, h) == { k \in MapKeys(cs) : h[MapGet(cs, k)].enabled }

\* toJSON() : the active identifier and the model of each cluster of
\* clustersList
toJSON ==
    [activeCluster |-> activeCluster,
     clusters |-> [i \in DOMAIN clustersList(clusters) |->
                     toModel(heap[clustersList(clusters)[i]])]]

\* fromStore(snapshot) on the store as it is: the identifiers, the enabled
\* identifiers and the active identifier of the store after the call
fromStoreHere(snapshot) ==
    LET newClusters == newClustersOf(snapshot.clusters)
        h == heapAfterLoad(snapshot.clusters)
    IN [ids |-> MapKeys(newClusters),
        enabled |-> EnabledIds(newClusters, h),
        active |-> activeFromStore(newClusters, h, snapshot.activeCluster)]

\* fromStore(snapshot) on a newly constructed store (no current clusters:
\* every record takes the "new Cluster" branch)
fromStoreFresh(snapshot) ==
    LET enabled == { snapshot.clusters[i].id : i \in
                       { j \in DOMAIN snapshot.clusters :
                           enableLoaded(Cluster(snapshot.clusters[j])).enabled } }
    IN [ids |-> { snapshot.clusters[i].id : i \in DOMAIN snapshot.clusters },
        enabled |-> enabled,
        active |-> IF snapshot.activeCluster \in enabled
                   THEN snapshot.activeCluster
                   ELSE Null]

\* ------------------------------------------------------------ connection
\* Cluster.activate : disconnected -> connecting, the local proxy is started
activate(r) ==
    /\ r \in MapValues(clusters)
    /\ heap[r].state = "disconnected"
    /\ heap[r].apiUrl # Null
    /\ heap' = [heap EXCEPT ![r].state = "connecting", ![r].proxy = TRUE]
    /\ pushStateToViewsAutomatically(
           clusters,
           [heap EXCEPT ![r].state = "connecting", ![r].proxy = TRUE], {})
    /\ UNCHANGED removedIds
    /\ emitted' = NoEvents
    /\ UNCHANGED <<windowVars, pageVars>>
    /\ lastOp' = [Op("activate", heap[r].id) EXCEPT !.ref = r]
    /\ UNCHANGED <<clusters, removedClusters, activeCluster, files,
                   pendingUnlink>>

\* the probe through the proxy succeeds: connecting -> connected, and the
\* permission check sets accessible
probeSucceeded(r, canAccess) ==
    /\ r \in DOMAIN heap
    /\ heap[r].state = "connecting"
    /\ heap' = [heap EXCEPT ![r].state = "connected",
                            ![r].accessible = canAccess]
    /\ pushStateToViewsAutomatically(
           clusters,
           [heap EXCEPT ![r].state = "connected",
                        ![r].accessible = canAccess], {})
    /\ UNCHANGED removedIds
    /\ emitted' = NoEvents
    /\ UNCHANGED <<windowVars, pageVars>>
    /\ lastOp' = [Op("probeSucceeded", heap[r].id) EXCEPT !.ref = r]
    /\ UNCHANGED <<clusters, removedClusters, activeCluster, files,
                   pendingUnlink>>

\* Cluster.disconnect, a failed probe or a failed re-probe: the proxy is torn
\* down and the cluster is disconnected
disconnect(r) ==
    /\ r \in DOMAIN heap
    /\ heap[r].state # "disconnected"
    /\ heap' = Collect([heap EXCEPT ![r].state = "disconnected",
                                    ![r].accessible = FALSE,
                                    ![r].proxy = FALSE],
                       clusters, removedClusters)
    /\ pushStateToViewsAutomatically(
           clusters,
           [heap EXCEPT ![r].state = "disconnected",
                        ![r].accessible = FALSE,
                        ![r].proxy = FALSE], {})
    /\ UNCHANGED removedIds
    /\ emitted' = NoEvents
    /\ UNCHANGED <<windowVars, pageVars>>
    /\ lastOp' = [Op("disconnect", heap[r].id) EXCEPT !.ref = r]
    /\ UNCHANGED <<clusters, removedClusters, activeCluster, files,
                   pendingUnlink>>

\* ------------------------------------------------------------ main process
\* pushState() called by hand
pushState ==
    /\ broadcasting(pushedStates(clusters, heap), clusters, heap)
    /\ emitted' = NoEvents
    /\ UNCHANGED <<windowVars, pageVars>>
    /\ lastOp' = Op("pushState", Null)
    /\ UNCHANGED <<heap, clusters, removedClusters, activeCluster, files,
                   pendingUnlink, removedIds>>

\* mutant of stateRequestHandler: only the enabled clusters are answered for
stateRequestHandlerEnabled(cs, h) ==
    [i \in DOMAIN enabledClustersList(cs, h) |->
        [id |-> h[enabledClustersList(cs, h)[i]].id,
         state |-> getState(h[enabledClustersList(cs, h)[i]])]]

\* handleRequest("cluster:states") : one { state, id } for each cluster of
\* clustersList
stateRequestHandler(cs, h) ==
    [i \in DOMAIN clustersList(cs) |->
        [id |-> h[clustersList(cs)[i]].id,
         state |-> getState(h[clustersList(cs)[i]])]]

\* ------------------------------------------------------------ window
\* the window's store reads the persisted snapshot (fromStore in the
\* window): known clusters keep their state, new ones are constructed
fromStoreInWindow(ids) ==
    /\ ids # DOMAIN view
    /\ view' = [id \in ids |->
                  IF id \in DOMAIN view
                  THEN view[id]
                  ELSE getState(Cluster(FileModel(id)))]
    /\ viewLatest' = viewLatest \cap ids
    /\ broadcast' = <<>>
    /\ emitted' = NoEvents
    /\ UNCHANGED <<windowVars, pageVars>>
    /\ lastOp' = Op("fromStoreInWindow", Null)
    /\ UNCHANGED <<heap, clusters, removedClusters, activeCluster,
                   files, pendingUnlink, ipcMain, removedIds, listening, channel,
                   response>>

\* registerIpcListener : subscribeToBroadcast("cluster:state", ...)
registerIpcListener ==
    /\ ~listening
    /\ listening' = TRUE
    /\ broadcast' = <<>>
    /\ emitted' = NoEvents
    /\ UNCHANGED <<windowVars, pageVars>>
    /\ lastOp' = Op("registerIpcListener", Null)
    /\ UNCHANGED <<heap, clusters, removedClusters, activeCluster,
                   files, pendingUnlink, ipcMain, removedIds, channel, response, view,
                   viewLatest>>

\* load() in the window: requestMain("cluster:states"), answered by the
\* handler of the main process
requestMain ==
    /\ ipcMain
    /\ response = NoResponse
    /\ response' = <<inFlight(stateRequestHandler(clusters, heap))>>
    /\ broadcast' = <<>>
    /\ emitted' = NoEvents
    /\ UNCHANGED <<windowVars, pageVars>>
    /\ lastOp' = Op("requestMain", Null)
    /\ UNCHANGED <<heap, clusters, removedClusters, activeCluster,
                   files, pendingUnlink, ipcMain, removedIds, listening, channel, view,
                   viewLatest>>

\* mutant of setState: a cluster is made for an unknown identifier
setStateOrCreate(v, clusterId, state) ==
    [id \in DOMAIN v \cup {clusterId} |->
        IF id = clusterId THEN state ELSE v[id]]

\* this.getById(clusterId)?.setState(state)
setState(v, clusterId, state) ==
    IF clusterId \in DOMAIN v THEN [v EXCEPT ![clusterId] = state] ELSE v

\* clusterStates.forEach(...) : each state is applied by identifier lookup
RECURSIVE setStates(_, _)
setStates(v, clusterStates) ==
    IF clusterStates = <<>>
    THEN v
    ELSE setStates(setState(v, Head(clusterStates).id,
                            Head(clusterStates).state),
                   Tail(clusterStates))

\* history: the identifiers whose state in the window is the newest one,
\* after the window has applied msgs in turn
RECURSIVE latestAfter(_, _, _)
latestAfter(latest, v, msgs) ==
    IF msgs = <<>>
    THEN latest
    ELSE latestAfter(IF Head(msgs).id \notin DOMAIN v THEN latest
                     ELSE IF Head(msgs).latest
                          THEN latest \cup {Head(msgs).id}
                          ELSE latest \ {Head(msgs).id},
                     v, Tail(msgs))

\* load() in the window, after the await: the answer is applied
loadStates ==
    /\ response # NoResponse
    /\ view' = setStates(view, response[1])
    /\ viewLatest' = latestAfter(viewLatest, setStates(view, response[1]),
                                 response[1])
    /\ response' = NoResponse
    /\ broadcast' = <<>>
    /\ emitted' = NoEvents
    /\ UNCHANGED <<windowVars, pageVars>>
    /\ lastOp' = [Op("loadStates", Null) EXCEPT
                     !.ids = [i \in DOMAIN response[1] |-> response[1][i].id]]
    /\ UNCHANGED <<heap, clusters, removedClusters, activeCluster,
                   files, pendingUnlink, ipcMain, removedIds, listening, channel>>

\* the listener of "cluster:state" receives the next message
receivePushState ==
    /\ channel # <<>>
    /\ view' = setState(view, Head(channel).id, Head(channel).state)
    /\ viewLatest' = latestAfter(viewLatest,
                                 setState(view, Head(channel).id,
                                          Head(channel).state),
                                 <<Head(channel)>>)
    /\ channel' = Tail(channel)
    /\ broadcast' = <<>>
    /\ emitted' = NoEvents
    /\ UNCHANGED <<windowVars, pageVars>>
    /\ lastOp' = [Op("receivePushState", Head(channel).id) EXCEPT
                     !.found = Head(channel).id \in DOMAIN view]
    /\ UNCHANGED <<heap, clusters, removedClusters, activeCluster,
                   files, pendingUnlink, ipcMain, removedIds, listening, response>>

\* ------------------------------------------------------------ WindowManager
\* mutant of hasNoMainWindow: the field is taken to be unset every time
hasNoMainWindowEver(mw) == TRUE

\* !this.mainWindow
hasNoMainWindow(mw) == mw = NoWindow

\* a BrowserWindow that was closed or destroyed
ClosedBrowserWindow ==
    [alive |-> FALSE, shown |-> FALSE, load |-> "idle", reported |-> FALSE]

\* await viewHasLoaded : a call that made no listener awaits a resolved
\* promise and goes on to delay(50), and so does a call whose listener has
\* fired; any other call waits for the LOADED message
awaitViewHasLoaded(call) ==
    [call EXCEPT !.pc = IF ~call.own \/ call.heard
                        THEN "delay"
                        ELSE "viewHasLoaded"]

\* loadURL(mainUrl) of a window settles: fulfilled or rejected (the rejection
\* is caught in initMainWindow), the calls that await it leave initMainWindow
loadSettled(cs, w) ==
    [c \in DOMAIN cs |->
        IF cs[c].pc = "loadURL" /\ cs[c].win = w
        THEN awaitViewHasLoaded(cs[c])
        ELSE cs[c]]

\* ensureMainWindow(showSplash), up to its first await that does not resume
\* at once; with nav set it is the call navigate(url, frame) makes.  Without
\* a main window it registers its LOADED listener and runs initMainWindow,
\* which makes the window and either awaits the new splash window's page or
\* shows the splash there is and starts loading the main URL.
ensureMainWindow(c, showSplash, nav, frame) ==
    /\ calls[c].pc = "idle"
    /\ \A b \in 1..(c - 1) : calls[b].pc # "idle"
    /\ LET call == [NoCall EXCEPT !.nav = nav, !.frame = frame]
       IN IF hasNoMainWindow(mainWindow)
          THEN LET makes == hasNoMainWindow(mainWindow)
                   made == IF makes
                           THEN Append(browserWindows, NewBrowserWindow)
                           ELSE browserWindows
                   mw == IF makes THEN Len(made) ELSE mainWindow
               IN /\ Len(browserWindows) < MaxWindows
                  /\ mainWindow' = mw
                  /\ IF showSplash /\ splashWindow = Null
                     THEN /\ splashWindow' = Splash
                          /\ browserWindows' = made
                          /\ calls' = [calls EXCEPT ![c] =
                                 [call EXCEPT !.own = TRUE,
                                              !.pc = "showSplash"]]
                     ELSE /\ splashWindow' = splashWindow
                          /\ browserWindows' =
                                 [made EXCEPT ![mw].load = "loading"]
                          /\ calls' = [calls EXCEPT ![c] =
                                 [call EXCEPT !.own = TRUE,
                                              !.pc = "loadURL",
                                              !.win = mw]]
          ELSE /\ calls' = [calls EXCEPT ![c] = awaitViewHasLoaded(call)]
               /\ UNCHANGED <<mainWindow, splashWindow, browserWindows>>
    /\ wmOp' = WmOp("ensureMainWindow")
    /\ UNCHANGED <<disposers, activeClusterId, clusterFrameMap, disposed>>
    /\ UNCHANGED <<storeVars, pageVars>>

\* navigate(url, frameId) : await this.ensureMainWindow()
navigate(c, frame) == ensureMainWindow(c, TRUE, TRUE, frame)

\* the page of the splash window has loaded: showSplash() shows it and
\* initMainWindow starts loading the main URL.  When the splash window or
\* the main window has been cleared meanwhile, the call throws and
\* initMainWindow catches it without loading anything.
splashLoaded(c) ==
    /\ calls[c].pc = "showSplash"
    /\ IF splashWindow = Null \/ mainWindow = NoWindow
       THEN /\ calls' = [calls EXCEPT ![c] = awaitViewHasLoaded(@)]
            /\ UNCHANGED browserWindows
       ELSE /\ calls' = [calls EXCEPT ![c].pc = "loadURL",
                                      ![c].win = mainWindow]
            /\ browserWindows' =
                   [browserWindows EXCEPT ![mainWindow].load = "loading"]
    /\ wmOp' = [WmOp("showSplash") EXCEPT
                   !.threw = (splashWindow = Null \/ mainWindow = NoWindow)]
    /\ UNCHANGED <<mainWindow, splashWindow, disposers, activeClusterId,
                   clusterFrameMap, disposed>>
    /\ UNCHANGED <<storeVars, pageVars>>

\* "did-finish-load" : loadURL(mainUrl) is fulfilled
didFinishLoad(w) ==
    /\ w \in DOMAIN browserWindows
    /\ browserWindows[w].alive
    /\ browserWindows[w].load = "loading"
    /\ browserWindows' = [browserWindows EXCEPT ![w].load = "loaded"]
    /\ calls' = loadSettled(calls, w)
    /\ wmOp' = WmOp("did-finish-load")
    /\ UNCHANGED <<mainWindow, splashWindow, disposers, activeClusterId,
                   clusterFrameMap, disposed>>
    /\ UNCHANGED <<storeVars, pageVars>>

\* "did-fail-load" : loadURL(mainUrl) is rejected, initMainWindow catches it
didFailLoad(w) ==
    /\ w \in DOMAIN browserWindows
    /\ browserWindows[w].alive
    /\ browserWindows[w].load = "loading"
    /\ browserWindows' = [browserWindows EXCEPT ![w].load = "failed"]
    /\ calls' = loadSettled(calls, w)
    /\ wmOp' = WmOp("did-fail-load")
    /\ UNCHANGED <<mainWindow, splashWindow, disposers, activeClusterId,
                   clusterFrameMap, disposed>>
    /\ UNCHANGED <<storeVars, pageVars>>

\* the renderer of a window whose page has loaded sends LOADED: every
\* ipcMain.once(LOADED) listener fires and is gone, and the calls that were
\* waiting for it go on to delay(50)
rendererLoaded(w) ==
    /\ w \in DOMAIN browserWindows
    /\ browserWindows[w].alive
    /\ browserWindows[w].load = "loaded"
    /\ ~browserWindows[w].reported
    /\ browserWindows' = [browserWindows EXCEPT ![w].reported = TRUE]
    /\ calls' = [c \in DOMAIN calls |->
                    IF calls[c].own /\ ~calls[c].heard
                    THEN IF calls[c].pc = "viewHasLoaded"
                         THEN awaitViewHasLoaded(
                                 [calls[c] EXCEPT !.heard = TRUE])
                         ELSE [calls[c] EXCEPT !.heard = TRUE]
                    ELSE calls[c]]
    /\ wmOp' = WmOp("LOADED")
    /\ UNCHANGED <<mainWindow, splashWindow, disposers, activeClusterId,
                   clusterFrameMap, disposed>>
    /\ UNCHANGED <<storeVars, pageVars>>

\* sendToView({channel, frameInfo, data}) : the messages sent through the
\* main window's web contents, to the frame when one is given
sendToView(chan, frame) == {[channel |-> chan, frame |-> frame]}

\* delay(50) is over: ensureMainWindow shows the main window, closes and
\* clears the splash window and returns this.mainWindow.  Without a main
\* window show() throws, which is caught, and the splash window is left.
\* navigate() then sends the URL to the frame it was given, when that frame
\* is in clusterFrameMap, and to the application otherwise.
delayElapsed(c) ==
    /\ calls[c].pc = "delay"
    /\ calls' = [calls EXCEPT ![c].pc = "returned",
                              ![c].result = mainWindow]
    /\ IF mainWindow = NoWindow
       THEN UNCHANGED <<browserWindows, splashWindow>>
       ELSE /\ browserWindows' =
                   [browserWindows EXCEPT ![mainWindow].shown = TRUE]
            /\ splashWindow' = Null
    /\ wmOp' = [WmOp("show") EXCEPT
                   !.threw = (mainWindow = NoWindow),
                   !.sent = IF calls[c].nav /\ mainWindow # NoWindow
                            THEN IF calls[c].frame \in clusterFrameMap
                                 THEN sendToView(NAVIGATE_IN_CLUSTER,
                                                 calls[c].frame)
                                 ELSE sendToView(NAVIGATE_IN_APP, Null)
                            ELSE {}]
    /\ UNCHANGED <<mainWindow, disposers, activeClusterId, clusterFrameMap,
                   disposed>>
    /\ UNCHANGED <<storeVars, pageVars>>

\* the main window is closed by the user; its "closed" handler clears
\* mainWindow and splashWindow.  A loadURL of the window that has not
\* settled is rejected.
closed(w) ==
    /\ w \in DOMAIN browserWindows
    /\ browserWindows[w].alive
    /\ browserWindows' = [browserWindows EXCEPT ![w] = ClosedBrowserWindow]
    /\ calls' = loadSettled(calls, w)
    /\ mainWindow' = NoWindow
    /\ splashWindow' = Null
    /\ wmOp' = WmOp("closed")
    /\ UNCHANGED <<disposers, activeClusterId, clusterFrameMap, disposed>>
    /\ UNCHANGED <<storeVars, pageVars>>

\* destroy() : this.mainWindow.destroy() throws without a main window.
\* Destroying the main window emits "closed": when the handler runs within
\* the call (closedNow) it clears splashWindow, and when it runs after the
\* call splashWindow is what it was; this.splashWindow.destroy() throws
\* without a splash window.  Only a call that gets past both lines invokes
\* the disposers and deletes them.
destroy(closedNow) ==
    /\ IF mainWindow = NoWindow
       THEN /\ wmOp' = [WmOp("destroy") EXCEPT !.threw = TRUE]
            /\ UNCHANGED <<mainWindow, splashWindow, browserWindows, calls,
                           disposers, disposed>>
       ELSE LET ran == ~closedNow /\ splashWindow # Null
            IN /\ browserWindows' = [browserWindows EXCEPT
                                        ![mainWindow] = ClosedBrowserWindow]
               /\ calls' = loadSettled(calls, mainWindow)
               /\ mainWindow' = NoWindow
               /\ splashWindow' = Null
               /\ disposers' = IF ran THEN {} ELSE disposers
               /\ disposed' = IF ran
                              THEN [name \in DisposerNames |->
                                       IF name \in disposers
                                       THEN disposed[name] + 1
                                       ELSE disposed[name]]
                              ELSE disposed
               /\ wmOp' = [WmOp("destroy") EXCEPT !.threw = ~ran]
    /\ UNCHANGED <<activeClusterId, clusterFrameMap>>
    /\ UNCHANGED <<storeVars, pageVars>>

\* webContents.getFocusedWebContents() : none, or those of a window on screen
FocusedWebContents ==
    {Null}
    \cup (IF mainWindow # NoWindow /\ browserWindows[mainWindow].shown
          THEN {"mainWindow"} ELSE {})
    \cup (IF splashWindow # Null THEN {"splashWindow"} ELSE {})

\* clusterFrameMap.get(clusterId) : the frame of the cluster, if it has one
frameInfoOf(frames, clusterId) == frames \cap {clusterId}

\* reload() : with a frame for activeClusterId, RELOAD_PAGE is sent to it
\* through this.mainWindow.webContents, which throws without a main window;
\* without a frame the focused web contents, if any, are reloaded
reload(focused) ==
    /\ focused \in FocusedWebContents
    /\ LET frameInfo == frameInfoOf(clusterFrameMap, activeClusterId)
       IN wmOp' =
             IF frameInfo # {}
             THEN IF mainWindow = NoWindow
                  THEN [WmOp("reload") EXCEPT !.threw = TRUE]
                  ELSE [WmOp("reload") EXCEPT
                           !.sent = sendToView(RELOAD_PAGE, activeClusterId)]
             ELSE [WmOp("reload") EXCEPT !.reloaded = focused]
    /\ UNCHANGED <<mainWindow, splashWindow, disposers, activeClusterId,
                   browserWindows, calls, clusterFrameMap, disposed>>
    /\ UNCHANGED <<storeVars, pageVars>>

\* bindEvents : a CLUSTER_VIEW_CURRENT_ID broadcast sets activeClusterId
currentClusterId(clusterId) ==
    /\ activeClusterId' = clusterId
    /\ wmOp' = WmOp("CLUSTER_VIEW_CURRENT_ID")
    /\ UNCHANGED <<mainWindow, splashWindow, disposers, browserWindows,
                   calls, clusterFrameMap, disposed>>
    /\ UNCHANGED <<storeVars, pageVars>>

\* clusterFrameMap.set(clusterId, frameInfo) : the frame of a cluster view
\* in the main window on screen is registered
setFrame(clusterId) ==
    /\ mainWindow # NoWindow
    /\ browserWindows[mainWindow].shown
    /\ clusterId \notin clusterFrameMap
    /\ clusterFrameMap' = clusterFrameMap \cup {clusterId}
    /\ wmOp' = WmOp("clusterFrameMap.set")
    /\ UNCHANGED <<mainWindow, splashWindow, disposers, activeClusterId,
                   browserWindows, calls, disposed>>
    /\ UNCHANGED <<storeVars, pageVars>>

\* clusterFrameMap.delete(clusterId)
deleteFrame(clusterId) ==
    /\ clusterId \in clusterFrameMap
    /\ clusterFrameMap' = clusterFrameMap \ {clusterId}
    /\ wmOp' = WmOp("clusterFrameMap.delete")
    /\ UNCHANGED <<mainWindow, splashWindow, disposers, activeClusterId,
                   browserWindows, calls, disposed>>
    /\ UNCHANGED <<storeVars, pageVars>>

\* ------------------------------------------------------------ hosted cluster
\* the position of the first separator in a string, 0 when there is none
indexOf(str, sep) ==
    IF \E i \in DOMAIN str : str[i] = sep
    THEN CHOOSE i \in DOMAIN str :
            /\ str[i] = sep
            /\ \A j \in 1..(i - 1) : str[j] # sep
    ELSE 0

\* String.prototype.split(sep) : the pieces between the separators, a
\* string without separator (the empty one too) being one piece
RECURSIVE split(_, _)
split(str, sep) ==
    LET i == indexOf(str, sep)
    IN IF i = 0
       THEN <<str>>
       ELSE <<SubSeq(str, 1, i - 1)>>
               \o split(SubSeq(str, i + 1, Len(str)), sep)

\* an index given to slice, counted from the end when negative
sliceIndex(array, k) ==
    IF k < 0
    THEN (IF Len(array) + k < 0 THEN 0 ELSE Len(array) + k)
    ELSE (IF k > Len(array) THEN Len(array) ELSE k)

\* mutant of slice: the first element, whatever the indices
sliceFirst(array, start, end) == SubSeq(array, 1, 1)

\* Array.prototype.slice(start, end) : the elements from start up to, not
\* including, end (indices from 0)
slice(array, start, end) ==
    SubSeq(array, sliceIndex(array, start) + 1, sliceIndex(array, end))

\* array[0] : the first element, undefined when there is none
first(array) == IF array = <<>> THEN Undefined ELSE array[1]

\* getClusterIdFromHost(host)
getClusterIdFromHost(str) ==
    LET subDomains == split(split(str, ":")[1], ".")
    IN first(slice(subDomains, 0 - 2, 0 - 1))

\* getClusterFrameUrl(clusterId) : `//${clusterId}.${location.host}`
getClusterFrameUrl(clusterId, locationHost) ==
    <<"/", "/">> \o clusterId \o <<".">> \o locationHost

\* location.host of the page a protocol-relative URL leads to: what follows
\* the two slashes
hostOfUrl(url) == SubSeq(url, 3, Len(url))

\* the host the application is served on: 'localhost:<port>'
appHost(port) == Localhost \o <<":">> \o port

\* the strings given as cluster identifiers
ClusterIdStrings == UNION { [1..n -> Chars] : n \in 0..MaxIdLen }

\* a cluster frame is opened at getClusterFrameUrl(clusterId) by the
\* application served on the port, and asks for its cluster
openClusterFrame(clusterId, port) ==
    /\ host' = hostOfUrl(getClusterFrameUrl(clusterId, appHost(port)))
    /\ frameClusterId' = clusterId
    /\ hostedClusterId' = getClusterIdFromHost(host')
    /\ UNCHANGED <<storeVars, windowVars>>

\* the application's own page asks for its cluster: getHostedClusterId()
openApp(port) ==
    /\ host' = appHost(port)
    /\ frameClusterId' = Undefined
    /\ hostedClusterId' = getClusterIdFromHost(host')
    /\ UNCHANGED <<storeVars, windowVars>>

\* ------------------------------------------------------------ specifications
\* Spec : the registry operations, over file, invalid and extension-owned
\* clusters; no kubeconfig is pasted and no cluster connects.
Next ==
    \/ \E id \in Ids \cup {Null} : setActive(id)
    \/ \E id \in Ids : deactivate(id)
    \/ \E model \in ClusterModels : addCluster(model)
    \/ \E r \in Refs : addClusterInstance(r)
    \/ \E id \in Ids : removeById(id)
    \/ \E active \in Ids \cup {Null}, models \in SnapshotClusters :
          fromStore(active, models)

Spec == Init /\ [][Next]_vars

\* SpecFiles : the registry operations with pasted kubeconfigs and the files
\* on disk, over file and pasted clusters.
NextFiles ==
    \/ \E id \in Ids \cup {Null} : setActive(id)
    \/ \E id \in PastedIds : embedCustomKubeConfig(id)
    \/ \E model \in FsModels : addCluster(model)
    \/ \E r \in Refs : addClusterInstance(r)
    \/ \E id \in Ids : removeById(id)
    \/ \E id \in PastedIds : unlinkDone(id)
    \/ \E active \in Ids \cup {Null}, models \in FsSnapshotClusters :
          fromStore(active, models)

SpecFiles == Init /\ [][NextFiles]_vars

\* SpecConn : the registry operations with the clusters' connections, over
\* file clusters.
NextConn ==
    \/ \E model \in FileModels : addCluster(model)
    \/ \E id \in Ids : removeById(id)
    \/ \E models \in FileSnapshotClusters :
          fromStore(Null, models)
    \/ \E r \in ConnIds \X (1..MaxGen) : activate(r)
    \/ \E r \in Refs, canAccess \in BOOLEAN : probeSucceeded(r, canAccess)
    \/ \E r \in Refs : disconnect(r)

SpecConn == Init /\ [][NextConn]_vars

\* the models the specifications of the main process draw from: the
\* clusters the user opens, and extension-owned (disabled) ones
SyncModels ==
    { FileModel(i) : i \in ConnIds }
    \cup { ManagedModel(i) : i \in Ids \ ConnIds }

SyncSnapshotClusters == SnapshotsOf(SyncModels)

\* SpecMain : the store of the main process, with the reactions that
\* broadcast the clusters' states; no window listens.
NextMain ==
    \/ \E model \in SyncModels : addCluster(model)
    \/ \E id \in Ids : removeById(id)
    \/ \E models \in SyncSnapshotClusters : fromStore(Null, models)
    \/ \E r \in ConnIds \X (1..MaxGen) : activate(r)
    \/ \E r \in Refs, canAccess \in BOOLEAN : probeSucceeded(r, canAccess)
    \/ \E r \in Refs : disconnect(r)
    \/ pushState

SpecMain == InitMain /\ [][NextMain]_vars

\* SpecSync : the store of the main process with its state broadcasts, and
\* one window that asks for the states and listens to the broadcasts.
NextSync ==
    \/ \E model \in SyncModels : addCluster(model)
    \/ \E id \in Ids : removeById(id)
    \/ \E r \in ConnIds \X (1..MaxGen) : activate(r)
    \/ \E r \in Refs : disconnect(r)
    \/ \E ids \in SUBSET Ids : fromStoreInWindow(ids)
    \/ registerIpcListener
    \/ requestMain
    \/ loadStates
    \/ receivePushState

SpecSync == InitMain /\ [][NextSync]_vars

\* SpecHost : the pages of the application and of its cluster frames, over
\* every identifier string up to MaxIdLen characters.
NextHost ==
    \/ \E clusterId \in ClusterIdStrings, port \in Ports :
          openClusterFrame(clusterId, port)
    \/ \E port \in Ports : openApp(port)

SpecHost == Init /\ [][NextHost]_vars

\* SpecWindow : the WindowManager's windows, with MaxCalls calls of
\* ensureMainWindow (direct or through navigate), the windows' events and
\* destroy.
NextWindow ==
    \/ \E c \in 1..MaxCalls, showSplash \in BOOLEAN :
          ensureMainWindow(c, showSplash, FALSE, Null)
    \/ \E c \in 1..MaxCalls : navigate(c, Null)
    \/ \E c \in 1..MaxCalls : splashLoaded(c)
    \/ \E w \in 1..MaxWindows : didFinishLoad(w)
    \/ \E w \in 1..MaxWindows : didFailLoad(w)
    \/ \E w \in 1..MaxWindows : rendererLoaded(w)
    \/ \E c \in 1..MaxCalls : delayElapsed(c)
    \/ \E w \in 1..MaxWindows : closed(w)
    \/ \E closedNow \in BOOLEAN : destroy(closedNow)

SpecWindow == Init /\ [][NextWindow]_vars

\* the scheduling of SpecWindow: a page that is loading finishes or fails,
\* the renderer of a loaded page sends LOADED, and timers and promises that
\* can resume do
FairWindow ==
    /\ \A c \in 1..MaxCalls : WF_vars(splashLoaded(c))
    /\ \A c \in 1..MaxCalls : WF_vars(delayElapsed(c))
    /\ \A w \in 1..MaxWindows :
          /\ WF_vars(didFinishLoad(w) \/ didFailLoad(w))
          /\ WF_vars(rendererLoaded(w))

SpecWindowFair == SpecWindow /\ FairWindow

\* SpecViews : the WindowManager with the cluster frames: the windows of
\* SpecWindow, navigate to a frame, the CLUSTER_VIEW_CURRENT_ID broadcasts,
\* the frames registered and reload.
NextViews ==
    \/ \E c \in 1..MaxCalls, showSplash \in BOOLEAN :
          ensureMainWindow(c, showSplash, FALSE, Null)
    \/ \E c \in 1..MaxCalls, frame \in Ids \cup {Null} : navigate(c, frame)
    \/ \E c \in 1..MaxCalls : splashLoaded(c)
    \/ \E w \in 1..MaxWindows : didFinishLoad(w)
    \/ \E w \in 1..MaxWindows : didFailLoad(w)
    \/ \E w \in 1..MaxWindows : rendererLoaded(w)
    \/ \E c \in 1..MaxCalls : delayElapsed(c)
    \/ \E w \in 1..MaxWindows : closed(w)
    \/ \E closedNow \in BOOLEAN : destroy(closedNow)
    \/ \E focused \in {Null, "mainWindow", "splashWindow"} : reload(focused)
    \/ \E clusterId \in Ids \cup {Null} : currentClusterId(clusterId)
    \/ \E clusterId \in Ids : setFrame(clusterId)
    \/ \E clusterId \in Ids : deleteFrame(clusterId)

SpecViews == Init /\ [][NextViews]_vars

\* ------------------------------------------------------------ properties
\* C1: in every reachable state the active identifier is none or the
\* identifier of a cluster that is in the registry and enabled.
C1_ActiveIsEnabled ==
    activeCluster = Null \/ activeCluster \in EnabledIds(clusters, heap)

\* C2: addCluster adds its identifier to the registry's identifiers and to
\* nothing else, no identifier occurs twice in the registry, and an addCluster
\* that directly follows an addCluster of the same identifier leaves the set
\* of identifiers and the number of entries as they were.
C2_AddIdempotent ==
    [][lastOp'.op = "addCluster" =>
         /\ MapKeys(clusters') = MapKeys(clusters) \cup {lastOp'.id}
         /\ Len(clusters') = Cardinality(MapKeys(clusters'))
         /\ lastOp'.afterAdd =>
               /\ MapKeys(clusters') = MapKeys(clusters)
               /\ Len(clusters') = Len(clusters)]_vars

\* an addCluster has directly followed an addCluster of the same identifier,
\* with another cluster in the registry
C2_Witness ==
    /\ lastOp.op = "addCluster"
    /\ lastOp.afterAdd
    /\ Len(clusters) = 2

\* C3: addCluster with an identifier already in the registry leaves the
\* registry entry of that identifier with the connection state (state,
\* accessible, proxy) it had before the call.
C3_UpdatedInPlace ==
    [][(lastOp'.op = "addCluster" /\ MapHas(clusters, lastOp'.id)) =>
         LET before == MapGet(clusters, lastOp'.id)
             after == MapGet(clusters', lastOp'.id)
         IN /\ heap'[after].state = heap[before].state
            /\ heap'[after].accessible = heap[before].accessible
            /\ heap'[after].proxy = heap[before].proxy]_vars

\* C4: after addCluster the added cluster is enabled if it is not managed;
\* if it is managed its enabled flag is the one it had: that of the instance
\* passed in, or the disabled flag of the cluster made from the model.
C4_EnabledUnlessManaged ==
    [][lastOp'.op = "addCluster" =>
         LET r == MapGet(clusters', lastOp'.id)
         IN /\ ~isManaged(heap'[r]) => heap'[r].enabled
            /\ isManaged(heap'[r]) =>
                  IF lastOp'.ref # NoRef
                  THEN heap'[r].enabled = heap[lastOp'.ref].enabled
                  ELSE ~heap'[r].enabled]_vars

\* a managed cluster has just been added and is disabled
C4_Witness ==
    /\ lastOp.op = "addCluster"
    /\ isManaged(heap[MapGet(clusters, lastOp.id)])
    /\ ~heap[MapGet(clusters, lastOp.id)].enabled

\* C5: a cluster for which no API URL could be resolved is never enabled.
C5_InvalidNeverEnabled ==
    \A r \in DOMAIN heap : heap[r].apiUrl = Null => ~heap[r].enabled

\* C6: after setActive(id) the active identifier is id if id is the
\* identifier of an enabled cluster of the registry, and none otherwise;
\* setActive changes nothing else.
C6_SetActive ==
    [][lastOp'.op = "setActive" =>
         /\ lastOp'.id \in EnabledIds(clusters, heap)
               => activeCluster' = lastOp'.id
         /\ lastOp'.id \notin EnabledIds(clusters, heap)
               => activeCluster' = Null
         /\ UNCHANGED <<heap, clusters, removedClusters, files,
                        pendingUnlink>>]_vars

\* setActive was called with the identifier of a disabled cluster of the
\* registry, and the active identifier is none
C6_Witness ==
    /\ lastOp.op = "setActive"
    /\ MapHas(clusters, lastOp.id)
    /\ ~heap[MapGet(clusters, lastOp.id)].enabled
    /\ activeCluster = Null

\* C7: removeById(id) of an identifier in the registry takes it out of the
\* registry; the active identifier becomes none if it was id and is unchanged
\* otherwise.
C7_RemoveById ==
    [][(lastOp'.op = "removeById" /\ MapHas(clusters, lastOp'.id)) =>
         /\ ~MapHas(clusters', lastOp'.id)
         /\ MapKeys(clusters') = MapKeys(clusters) \ {lastOp'.id}
         /\ activeCluster = lastOp'.id => activeCluster' = Null
         /\ activeCluster # lastOp'.id => activeCluster' = activeCluster]_vars

\* a cluster has just been removed while another cluster is active
C7_Witness ==
    /\ lastOp.op = "removeById"
    /\ lastOp.found
    /\ activeCluster # Null
    /\ MapHas(clusters, activeCluster)

\* C8, as stated: removeById(id) of an identifier not in the registry changes
\* nothing and emits nothing.
C8_UnknownIsSilent ==
    [][(lastOp'.op = "removeById" /\ ~MapHas(clusters, lastOp'.id)) =>
         /\ UNCHANGED <<heap, clusters, removedClusters, activeCluster,
                        files, pendingUnlink>>
         /\ emitted' = NoEvents]_vars

\* C8, amended: removeById(id) of an identifier not in the registry leaves
\* the registry, the removed-set, the active identifier and the files as they
\* were; it emits the "cluster remove" event on the event bus and nothing else.
C8_UnknownChangesNothing ==
    [][(lastOp'.op = "removeById" /\ ~MapHas(clusters, lastOp'.id)) =>
         /\ UNCHANGED <<heap, clusters, removedClusters, activeCluster,
                        files, pendingUnlink>>
         /\ emitted' = <<Event("cluster", "remove")>>]_vars

\* removeById was called with an unknown identifier while the registry holds
\* an active cluster whose private kubeconfig is on disk
C8_Witness ==
    /\ lastOp.op = "removeById"
    /\ ~lastOp.found
    /\ activeCluster # Null
    /\ \E i \in PastedIds : getCustomKubeConfigPath(i) \in files

C10_RemovedIsDisconnected ==
    (lastOp.op = "removeById" /\ lastOp.found /\ lastOp.done
        /\ lastOp.ref \in DOMAIN heap)
       => /\ heap[lastOp.ref].state = "disconnected"
          /\ ~heap[lastOp.ref].proxy

\* the identifiers of a snapshot's records
SnapshotIds(ids) == { ids[i] : i \in DOMAIN ids }

\* C11: no state broadcast of the store references an identifier that
\* removeById has removed and that has not been added again since.
C11_NoBroadcastOfRemoved ==
    \A i \in DOMAIN broadcast : broadcast[i].id \notin removedIds

\* pushState was called after removeById removed a cluster that is still
\* connecting or connected, and it broadcast the state of another cluster
C11_Witness ==
    /\ lastOp.op = "pushState"
    /\ broadcast # <<>>
    /\ \E r \in DOMAIN heap :
          heap[r].id \in removedIds /\ heap[r].state # "disconnected"

\* C12: after fromStore the registry holds exactly the identifiers of the
\* snapshot, each once; the removed-set holds exactly the clusters that were
\* in the registry before the call and whose identifier is not in the
\* snapshot, the same entities and unchanged; so every cluster that was in
\* the registry is in the registry or in the removed-set.
C12_RemovedSet ==
    [][lastOp'.op = "fromStore" =>
         LET ids == SnapshotIds(lastOp'.ids)
         IN /\ MapKeys(clusters') = ids
            /\ Len(clusters') = Cardinality(ids)
            /\ MapKeys(removedClusters') = MapKeys(clusters) \ ids
            /\ Len(removedClusters') = Cardinality(MapKeys(removedClusters'))
            /\ \A k \in MapKeys(removedClusters') :
                  /\ MapGet(removedClusters', k) = MapGet(clusters, k)
                  /\ heap'[MapGet(removedClusters', k)]
                        = heap[MapGet(clusters, k)]
            /\ \A k \in MapKeys(clusters) :
                  MapHas(clusters', k) \/ MapHas(removedClusters', k)]_vars

\* fromStore has moved a cluster to the removed-set and kept another
C12_Witness ==
    /\ lastOp.op = "fromStore"
    /\ removedClusters # EmptyMap
    /\ clusters # EmptyMap

\* C13: for every identifier in the registry and in the snapshot, fromStore
\* leaves the same Cluster entity in the registry, with the enabled flag and
\* the connection state (state, accessible, proxy) it had before.
C13_KeptInPlace ==
    [][lastOp'.op = "fromStore" =>
         \A k \in MapKeys(clusters) \cap SnapshotIds(lastOp'.ids) :
            LET before == MapGet(clusters, k)
                after == MapGet(clusters', k)
            IN /\ after = before
               /\ after \notin lastOp'.made
               /\ heap'[after].enabled = heap[before].enabled
               /\ heap'[after].state = heap[before].state
               /\ heap'[after].accessible = heap[before].accessible
               /\ heap'[after].proxy = heap[before].proxy]_vars

\* fromStore has reloaded a cluster that is connecting or connected
C13_Witness ==
    /\ lastOp.op = "fromStore"
    /\ \E k \in SnapshotIds(lastOp.ids) :
          /\ MapHas(clusters, k)
          /\ heap[MapGet(clusters, k)].state # "disconnected"
          /\ heap[MapGet(clusters, k)].proxy

\* C14: after fromStore the active identifier is the snapshot's active
\* identifier if that is the identifier of an enabled cluster of the
\* reconciled registry, and none otherwise.
C14_ActiveFromStore ==
    [][lastOp'.op = "fromStore" =>
         activeCluster' = IF lastOp'.id \in EnabledIds(clusters', heap')
                          THEN lastOp'.id
                          ELSE Null]_vars

\* fromStore was given the active identifier of a cluster that is in the
\* reconciled registry and disabled, and the active identifier is none
C14_Witness ==
    /\ lastOp.op = "fromStore"
    /\ MapHas(clusters, lastOp.id)
    /\ ~heap[MapGet(clusters, lastOp.id)].enabled
    /\ activeCluster = Null

\* the identifiers, the enabled identifiers and the active identifier of the
\* store
Registry ==
    [ids |-> MapKeys(clusters),
     enabled |-> EnabledIds(clusters, heap),
     active |-> activeCluster]

\* C15: in every reachable state, loading what toJSON returns with fromStore,
\* into the same store or into a newly constructed one, gives the same
\* identifiers, the same enabled clusters and the same active identifier.
C15_RoundTrip ==
    /\ fromStoreHere(toJSON) = Registry
    /\ fromStoreFresh(toJSON) = Registry

\* C16: whenever the identifier of a cluster whose kubeConfigPath is its
\* private copy leaves the registry while that file is on disk, by removeById
\* or by fromStore, the step issues the deletion of the file.
C16_PrivateCopyDeleted ==
    [][\A id \in PastedIds :
         (/\ MapHas(clusters, id)
          /\ ownsCustomKubeConfig(heap[MapGet(clusters, id)], id)
          /\ getCustomKubeConfigPath(id) \in files
          /\ ~MapHas(clusters', id))
            => pendingUnlink'[id] = pendingUnlink[id] + 1]_vars

\* the identifiers of the connected (not disconnected) clusters of registry cs
ConnectedIds(cs, h) ==
    { k \in MapKeys(cs) : h[MapGet(cs, k)].state # "disconnected" }

\* the messages msgs hold the state of each cluster of registry cs
StatesOfAll(msgs, cs, h) ==
    \A k \in MapKeys(cs) :
       \E i \in DOMAIN msgs :
          /\ msgs[i].id = k
          /\ msgs[i].state = getState(h[MapGet(cs, k)])

\* C17: the answer of the main process to a state query holds one entry for
\* every cluster of the registry at that moment, enabled or not, with the
\* cluster's connection state, and no other entry.
C17_StateQuery ==
    [][lastOp'.op = "requestMain" =>
         /\ Len(response') = 1
         /\ Len(response'[1]) = Cardinality(MapKeys(clusters))
         /\ { response'[1][i].id : i \in DOMAIN response'[1] }
               = MapKeys(clusters)
         /\ StatesOfAll(response'[1], clusters, heap)]_vars

\* a state query was answered while the registry held a disabled cluster and
\* a connecting one
C17_Witness ==
    /\ lastOp.op = "requestMain"
    /\ response # NoResponse
    /\ Len(response[1]) = 2
    /\ EnabledIds(clusters, heap) # MapKeys(clusters)
    /\ ConnectedIds(clusters, heap) # {}

\* C18: in the main process, a step that changes the set of enabled clusters
\* or the set of connected clusters of the registry broadcasts the state of
\* each cluster the registry holds after it.
C18_BroadcastOnChange ==
    [][(\/ EnabledIds(clusters', heap') # EnabledIds(clusters, heap)
        \/ ConnectedIds(clusters', heap') # ConnectedIds(clusters, heap))
          => StatesOfAll(broadcast', clusters', heap')]_vars

\* activate has made a cluster connecting with two clusters in the registry,
\* and the state of both was broadcast
C18_Witness ==
    /\ lastOp.op = "activate"
    /\ Len(clusters) = 2
    /\ StatesOfAll(broadcast, clusters, heap)

\* C19: a state the window receives for an identifier that is not in its
\* registry, in a broadcast or in the answer to its query, changes nothing:
\* no cluster is made and the known clusters keep their state; a state for a
\* known identifier becomes the state of that cluster and of no other.
C19_UnknownDropped ==
    [][/\ lastOp'.op = "receivePushState" =>
             /\ DOMAIN view' = DOMAIN view
             /\ \A id \in DOMAIN view :
                   view'[id] = IF id = Head(channel).id
                               THEN Head(channel).state
                               ELSE view[id]
       /\ lastOp'.op = "loadStates" =>
             /\ DOMAIN view' = DOMAIN view
             /\ \A id \in DOMAIN view :
                   IF \E i \in DOMAIN response[1] : response[1][i].id = id
                   THEN \E i \in DOMAIN response[1] :
                           /\ response[1][i].id = id
                           /\ view'[id] = response[1][i].state
                   ELSE view'[id] = view[id]]_vars

\* the window has received the broadcast state of a cluster it does not know
\* while it knows another cluster
C19_Witness ==
    /\ lastOp.op = "receivePushState"
    /\ ~lastOp.found
    /\ lastOp.id \notin DOMAIN view
    /\ DOMAIN view # {}

\* C20: the window never applies an older state of a cluster after a newer
\* one: when it holds the newest state the main process has made of a
\* cluster, applying the answer to its query or a broadcast leaves it with
\* that state.
C20_CausalOrder ==
    [][lastOp'.op \in {"receivePushState", "loadStates"} =>
         \A id \in viewLatest :
            id \in DOMAIN view' =>
               (view'[id] = view[id] \/ id \in viewLatest')]_vars

\* C22: removeById deletes a file only when the kubeConfigPath of the
\* cluster it removes is the private path of that cluster's own identifier:
\* it issues a deletion for that path alone and only then, the deletion
\* carried out removes that path alone, and a referenced kubeconfig and the
\* private paths of the other identifiers stay on disk.
C22_OnlyOwnPrivateCopy ==
    [][/\ lastOp'.op = "removeById" =>
             /\ files' = files
             /\ \A id \in DOMAIN pendingUnlink :
                   pendingUnlink'[id] # pendingUnlink[id] =>
                      /\ id = lastOp'.id
                      /\ lastOp'.found
                      /\ heap[lastOp'.ref].kubeConfigPath =
                            getCustomKubeConfigPath(id)
                      /\ pendingUnlink'[id] = pendingUnlink[id] + 1
       /\ lastOp'.op = "unlink" =>
             /\ files \ files' \subseteq {getCustomKubeConfigPath(lastOp'.id)}
             /\ files' \subseteq files
       /\ ExternalPath \in files']_vars

\* removeById has removed a cluster that names a referenced kubeconfig while
\* the private copy of its identifier is on disk, and has deleted nothing
C22_Witness ==
    /\ lastOp.op = "removeById"
    /\ lastOp.found
    /\ lastOp.done
    /\ lastOp.id \in PastedIds
    /\ getCustomKubeConfigPath(lastOp.id) \in files
    /\ pendingUnlink[lastOp.id] = 0

\* C27: no identifier is in the registry and in the removed-set at the same
\* time.
C27_RegistryDisjointFromRemoved ==
    MapKeys(clusters) \cap MapKeys(removedClusters) = {}

\* C28: the deletion that an earlier removeById issued does not take away the
\* private copy of a cluster that is in the registry: a cluster of the
\* registry whose kubeConfigPath is its private path, and whose file is on
\* disk, still has that file after the deletion was carried out.
C28_ReAddKeepsPrivateCopy ==
    [][lastOp'.op = "unlink" =>
         \A id \in PastedIds :
            (/\ MapHas(clusters, id)
             /\ ownsCustomKubeConfig(heap[MapGet(clusters, id)], id)
             /\ getCustomKubeConfigPath(id) \in files)
            => getCustomKubeConfigPath(id) \in files']_vars

\* C29: a deletion that fails does not fail removeById: the call runs to its
\* end, and the registry, the removed-set, the clusters and the active
\* identifier are what removeById left before the deletion, as they are when
\* the deletion succeeds.
C29_UnlinkFailureSwallowed ==
    [][lastOp'.op = "unlink" =>
         /\ lastOp'.done
         /\ UNCHANGED <<clusters, removedClusters, activeCluster, heap>>]_vars

\* the deletion issued by removeById has failed: the file was not there
C29_Witness ==
    /\ lastOp.op = "unlink"
    /\ ~lastOp.found
    /\ lastOp.afterAdd
    /\ lastOp.done
    /\ ~MapHas(clusters, lastOp.id)

\* C30: getClusterIdFromHost inverts getClusterFrameUrl: in the frame opened
\* for an identifier without '.' and ':' on 'localhost:<port>' the hosted
\* cluster is that identifier, and on the application's own host
\* 'localhost:<port>' it is undefined.
C30_HostRoundTrip ==
    /\ (/\ frameClusterId # Undefined
        /\ \A i \in DOMAIN frameClusterId :
              frameClusterId[i] \notin {".", ":"})
       => hostedClusterId = frameClusterId
    /\ (frameClusterId = Undefined /\ host # <<>>)
       => hostedClusterId = Undefined

\* a frame opened for an identifier of MaxIdLen characters, none of them a
\* separator, has answered with that identifier
C30_Witness ==
    /\ frameClusterId # Undefined
    /\ Len(frameClusterId) = MaxIdLen
    /\ \A i \in DOMAIN frameClusterId : frameClusterId[i] \notin {".", ":"}
    /\ host = frameClusterId \o <<".">> \o appHost(<<"8", "0">>)
    /\ hostedClusterId = frameClusterId

\* C21: reload() reloads the active cluster's view only: when activeClusterId
\* has a frame in clusterFrameMap, RELOAD_PAGE is sent to that frame and to
\* nothing else and no web contents are reloaded; web contents are reloaded
\* only when it has no frame, and then nothing is sent.
C21_ReloadActiveView ==
    [][wmOp'.op = "reload" =>
         IF activeClusterId \in clusterFrameMap
         THEN /\ wmOp'.sent = {[channel |-> RELOAD_PAGE,
                                frame |-> activeClusterId]}
              /\ wmOp'.reloaded = Null
         ELSE wmOp'.sent = {}]_vars

\* C23: show() is called on the main window only after the LOADED message of
\* that window's renderer has been received: a main window that comes on
\* screen has reported.
C23_ShowAfterLoaded ==
    [][\A w \in DOMAIN browserWindows :
          (~browserWindows[w].shown /\ browserWindows'[w].shown)
          => browserWindows[w].reported]_vars

\* C24: every call of ensureMainWindow eventually returns, whether the main
\* URL loads or fails to load.
C24_EnsureReturns ==
    \A c \in 1..MaxCalls :
       (calls[c].pc # "idle") ~> (calls[c].pc = "returned")

\* the main BrowserWindow objects that exist
MainWindows == { w \in DOMAIN browserWindows : browserWindows[w].alive }

\* C25: at most one main window exists at any time, and it is the one
\* this.mainWindow holds; a main window is made only when none exists, and
\* an ensureMainWindow that finds none (at the start, or after "closed")
\* makes a new one and holds it.
C25_SingleMainWindow ==
    /\ [](/\ Cardinality(MainWindows) <= 1
          /\ mainWindow # NoWindow => MainWindows = {mainWindow})
    /\ [][/\ Len(browserWindows') > Len(browserWindows) =>
                /\ MainWindows = {}
                /\ wmOp'.op = "ensureMainWindow"
          /\ (wmOp'.op = "ensureMainWindow" /\ mainWindow = NoWindow) =>
                /\ Len(browserWindows') = Len(browserWindows) + 1
                /\ mainWindow' = Len(browserWindows')
                /\ MainWindows' = {mainWindow'}]_vars

\* after the first main window was closed, ensureMainWindow has made a
\* second one, which is the only one
C25_Witness ==
    /\ wmOp.op = "ensureMainWindow"
    /\ Len(browserWindows) = 2
    /\ ~browserWindows[1].alive
    /\ mainWindow = 2
    /\ MainWindows = {2}

\* C26: destroy() invokes every disposer in the table once and leaves the
\* table empty, whatever the windows are.
C26_DestroyDisposes ==
    [][wmOp'.op = "destroy" =>
         /\ disposers' = {}
         /\ \A name \in DisposerNames :
               disposed'[name] =
                  disposed[name] + (IF name \in disposers THEN 1 ELSE 0)]_vars
====
